---- MODULE Spec2Model ----
(***************************************************************************)
(* Model of routeLoader (src/lib/server.js, lines 108-184): the discovery  *)
(* of handler files, the upward walk that collects middleware.* files, the *)
(* registration of the collected chain, and the wrapped method             *)
(* registrations that merge the sibling schema.json into options.schema.   *)
(*                                                                         *)
(* A path is the sequence of its components below the filesystem root, so  *)
(* <<>> is "/" and <<"api", "users", "index.js">> is /api/users/index.js.  *)
(* A middleware is identified by the directory that holds its file.        *)
(*                                                                         *)
(* server.js uses fs.existsSync (lines 126, 162) and fs.readFileSync (line *)
(* 165) but binds no fs (lines 4-18). Whether the identifier resolves is   *)
(* up to the host: it does where a global fs exists (the Node REPL,        *)
(* node -e), and a reference raises ReferenceError where it does not.      *)
(* fsDefined is that fact, fixed for a run.                                *)
(***************************************************************************)
EXTENDS Integers, Sequences, FiniteSets, TLC

\* ------------------------------------------------------------------ bounds
\* Iterations of the while (true) loop the model follows before it stops
\* looking; the loop itself has no bound.
MaxUp == 4
\* Method registrations one handler body makes.
MaxCalls == 1

\* ------------------------------------------------------------- the inputs
\* The index.* files glob.sync returns, numbered in the order it returns them.
Handlers == {1, 2}

\* Directories that hold a handler file: api/**/index.* with "/" as the
\* working directory.
HandlerDirs ==
    { <<"api", "users">>, <<"api", "handlers">>,
      <<"api", "handlers", "users">>, <<"api", "handlers", "posts">> }

Prefixes(d) == { SubSeq(d, 1, n) : n \in 0..Len(d) }

AllDirs == UNION { Prefixes(d) : d \in HandlerDirs }

\* What a module file exports, by the features the loader looks at:
\*   AsyncFunction  an async function
\*   Function       a plain synchronous function
\*   Object         a value that is not callable
\*   Throws         the module throws while it is imported
ExportKinds == {"AsyncFunction", "Function", "Object", "Throws"}
\* The middleware.* file of a directory; None when glob.sync finds no file.
MwKinds == {"None", "AsyncFunction", "Function", "Throws"}

EmptyObj == [k \in {} |-> 0]
\* The objects schemas are drawn from: {}, {a:1}, {b:3}, {a:2,b:3}.
SchemaObjs ==
    { EmptyObj, [k \in {"a"} |-> 1], [k \in {"b"} |-> 3],
      [k \in {"a", "b"} |-> IF k = "a" THEN 2 ELSE 3] }

\* An optional object: options.schema, which may be undefined.
Undefined == [has |-> FALSE, val |-> EmptyObj]
Some(o) == [has |-> TRUE, val |-> o]
InlineSchemas == {Undefined} \cup { Some(o) : o \in SchemaObjs }

\* schema.json beside the handler: absent, not JSON, or the JSON of an object.
SchemaFiles ==
    { [kind |-> "absent", val |-> EmptyObj], [kind |-> "invalid", val |-> EmptyObj] }
    \cup { [kind |-> "json", val |-> o] : o \in SchemaObjs }

Urls == {"/"}

\* ------------------------------------------------------------------ state
VARIABLES
    fsDefined,    \* whether the identifier fs resolves when server.js runs
    hdir,         \* handler -> the directory of its index.* file
    mwFile,       \* directory -> the middleware.* file it holds
    routeExport,  \* handler -> what its module exports
    body,         \* handler -> the method registrations its body makes
    schemaFile,   \* handler -> its sibling schema.json
    state,        \* handler -> where its registration stands
    up,           \* handler -> length of the array up
    middlewares,  \* handler -> the array middlewares
    named,        \* handler -> the directories whose basename was taken
    searched,     \* handler -> the directories glob.sync looked into
    registered,   \* handler -> the middlewares given to wrapper.register
    invoked,      \* handler -> times handle(_instance) was called
    calls,        \* handler -> method registrations made so far
    schema,       \* handler -> the object schema: key -> options.schema
    forwarded,    \* handler -> the calls passed to originalMethod
    error         \* handler -> the exception that ended its registration

env == <<fsDefined, hdir, mwFile, routeExport, body, schemaFile>>
walk == <<up, middlewares, named, searched>>
routes == <<invoked, calls, schema, forwarded>>
vars == <<env, state, walk, registered, routes, error>>

\* ------------------------------------------------------------------ paths
\* path.resolve(p, '../' taken k times): k components up, never above "/".
Resolve(p, k) == SubSeq(p, 1, IF Len(p) > k THEN Len(p) - k ELSE 0)

\* path.dirname
Dirname(p) == Resolve(p, 1)

\* path.basename; the basename of "/" is the empty string.
Basename(p) == IF p = <<>> THEN "" ELSE p[Len(p)]

\* The value of handler in the forEach callback: the path of the index file.
HandlerPath(h) == Append(hdir[h], "index.js")

\* Line 123: path.resolve(handler, up.join('')).
NamedDir(h) == Resolve(HandlerPath(h), up[h])

\* Line 124: path.resolve(path.dirname(handler), up.join('')).
SearchedDir(h) == Resolve(Dirname(HandlerPath(h)), up[h])

\* ------------------------------------------------------- module exports
\* handle[Symbol.toStringTag]: only async functions carry the tag
\* "AsyncFunction"; a plain function and a plain object carry none.
ToStringTag(kind) == IF kind = "AsyncFunction" THEN "AsyncFunction" ELSE "undefined"

\* Whether calling the export is possible at all.
Callable(kind) == kind \in {"AsyncFunction", "Function"}

\* Line 130: the test a middleware export passes to be pushed.
Honoured(kind) == ToStringTag(kind) = "AsyncFunction"

\* Line 145: the test a handler export passes to be invoked.
Recognised(kind) == ToStringTag(kind) \in {"AsyncFunction", "Function"}

\* --------------------------------------------------------------- the walk
\* Fault model of NewMiddlewares: one array shared by all handlers.
SharedMiddlewares(h) ==
    IF h = 1 THEN <<>> ELSE middlewares[h - 1]

\* Line 120: const middlewares = [], a fresh array for each handler.
NewMiddlewares(h) == <<>>

\* Fault model of Continues: a file that is not honoured ends the walk.
ContinuesIfHonoured(kind, basename) == Honoured(kind) /\ basename # "handlers"

\* Lines 135-136: after a middleware file was found and loaded, the walk goes
\* one level up unless the named directory is called handlers.
Continues(kind, basename) == basename # "handlers"

Reverse(s) == [i \in 1..Len(s) |-> s[Len(s) + 1 - i]]

\* Fault model of RegisterOrder: the array is registered as collected.
CollectedOrder(ms) == ms

\* Line 141: middlewares.reverse().
RegisterOrder(ms) == Reverse(ms)

\* ------------------------------------------------------------ the schemas
\* The object {...a, ...b}: the keys of both, b's value where both have one.
Spread(a, b) ==
    [k \in (DOMAIN a) \cup (DOMAIN b) |-> IF k \in DOMAIN b THEN b[k] ELSE a[k]]

\* Line 164: options.schema ?? {}.
Override(inline) == IF inline.has THEN inline.val ELSE EmptyObj

\* Fault model of OnParseError: the catch block stores the override.
StoreOverride(inline) == Some(Override(inline))

\* Lines 166-168: JSON.parse threw before the assignment, the catch block is
\* empty, options.schema is what it was.
OnParseError(inline) == inline

\* Lines 162-169: options.schema after the schema.json block.
Augment(inline, file) ==
    IF file.kind = "absent" THEN inline
    ELSE IF file.kind = "invalid" THEN OnParseError(inline)
    ELSE Some(Spread(Override(inline), file.val))

\* Line 171: the key of the entry, `${method}${url}`.
SchemaKey(method, url) == method \o url

\* Line 171: schema[key] = value.
Put(table, key, value) ==
    [k \in (DOMAIN table) \cup {key} |-> IF k = key THEN value ELSE table[k]]

\* Line 148.
Methods == {"get", "post", "put", "patch", "delete", "options", "head"}

Calls == [method : Methods, url : Urls, inline : InlineSchemas]

\* The bodies a handler can have: up to MaxCalls method registrations.
Bodies == UNION { [1..n -> Calls] : n \in 0..MaxCalls }

\* ---------------------------------------------------------- initial state
Terminal == {"registered", "skipped", "aborted"}

\* Directories on the way from a handler's directory up to "/".
OnAPath(dirs) == UNION { Prefixes(dirs[h]) : h \in Handlers }

\* Handler directories that no other handler lies below.
Leaves(dirs) ==
    { dirs[h] : h \in Handlers } \ UNION { Prefixes(Dirname(dirs[h])) : h \in Handlers }

Started ==
    /\ state = [h \in Handlers |-> "discovered"]
    /\ up = [h \in Handlers |-> 0]
    /\ middlewares = [h \in Handlers |-> <<>>]
    /\ named = [h \in Handlers |-> <<>>]
    /\ searched = [h \in Handlers |-> <<>>]
    /\ registered = [h \in Handlers |-> <<>>]
    /\ invoked = [h \in Handlers |-> 0]
    /\ calls = [h \in Handlers |-> 0]
    /\ schema = [h \in Handlers |-> EmptyObj]
    /\ forwarded = [h \in Handlers |-> <<>>]
    /\ error = [h \in Handlers |-> "none"]

\* Every pair of handler directories, every placement of middleware files
\* on the directories above them, and two fixed handler bodies.
Init ==
    /\ fsDefined \in BOOLEAN
    /\ hdir \in { f \in [Handlers -> HandlerDirs] : f[1] # f[2] }
    /\ mwFile \in { m \in [AllDirs -> MwKinds] :
                      /\ \A d \in AllDirs \ OnAPath(hdir) : m[d] = "None"
                      /\ \A d \in Leaves(hdir) : m[d] \in {"None", "AsyncFunction"} }
    /\ routeExport \in [Handlers -> {"AsyncFunction", "Function"}]
    /\ body = [h \in Handlers |->
                 << [method |-> IF h = 1 THEN "get" ELSE "post", url |-> "/",
                     inline |-> Some([k \in {"a"} |-> 1])] >>]
    /\ schemaFile = [h \in Handlers |->
                       IF h = 1 THEN [kind |-> "json", val |-> [k \in {"b"} |-> 3]]
                       ELSE [kind |-> "absent", val |-> EmptyObj]]
    /\ Started

\* One tree, and every export, body and schema.json of the first handler.
InitSchema ==
    /\ fsDefined \in BOOLEAN
    /\ hdir = [h \in Handlers |->
                 IF h = 1 THEN <<"api", "handlers", "users">> ELSE <<"api", "users">>]
    /\ mwFile \in { m \in [AllDirs -> {"None", "AsyncFunction"}] :
                      \A d \in AllDirs \ { <<"api", "handlers">> } : m[d] = "None" }
    /\ routeExport \in { r \in [Handlers -> ExportKinds] : r[2] = "AsyncFunction" }
    /\ body \in { b \in [Handlers -> Bodies] :
                    /\ b[2] = << [method |-> "post", url |-> "/", inline |-> Undefined] >>
                    /\ routeExport[1] # "AsyncFunction" => b[1] = <<>> }
    /\ schemaFile \in { f \in [Handlers -> SchemaFiles] :
                          /\ f[2].kind = "absent"
                          /\ routeExport[1] # "AsyncFunction" => f[1].kind = "absent" }
    /\ Started

\* ---------------------------------------------------------------- actions
\* Lines 117-120: the plugin registered for handler h starts. The plugins are
\* queued in glob order and the framework runs one to its end before the next.
Discover(h) ==
    /\ state[h] = "discovered"
    /\ \A g \in Handlers : g < h => state[g] \in Terminal
    /\ state' = [state EXCEPT ![h] = "resolving"]
    /\ up' = [up EXCEPT ![h] = 1]
    /\ middlewares' = [middlewares EXCEPT ![h] = NewMiddlewares(h)]
    /\ UNCHANGED <<env, named, searched, registered, routes, error>>

\* Lines 122-140: one iteration of the while (true) loop.
WalkStep(h) ==
    /\ state[h] = "resolving"
    /\ up[h] <= MaxUp
    /\ LET n == NamedDir(h)
           d == SearchedDir(h)
           kind == mwFile[d]
       IN  /\ named' = [named EXCEPT ![h] = Append(@, n)]
           /\ searched' = [searched EXCEPT ![h] = Append(@, d)]
           /\ IF kind = "None"
              THEN \* line 138
                   /\ state' = [state EXCEPT ![h] = "walked"]
                   /\ UNCHANGED <<up, middlewares, error>>
              ELSE IF ~fsDefined
              THEN \* line 126: fs.existsSync with fs unbound
                   /\ state' = [state EXCEPT ![h] = "aborted"]
                   /\ error' = [error EXCEPT ![h] = "ReferenceError at line 126"]
                   /\ UNCHANGED <<up, middlewares>>
              ELSE IF kind = "Throws"
              THEN \* line 127: the import rejects
                   /\ state' = [state EXCEPT ![h] = "aborted"]
                   /\ error' = [error EXCEPT ![h] = "import failed at line 127"]
                   /\ UNCHANGED <<up, middlewares>>
              ELSE /\ middlewares' =
                        [middlewares EXCEPT ![h] = IF Honoured(kind) THEN Append(@, d) ELSE @]
                   /\ IF Continues(kind, Basename(n))
                      THEN /\ up' = [up EXCEPT ![h] = @ + 1]
                           /\ UNCHANGED state
                      ELSE /\ state' = [state EXCEPT ![h] = "walked"]
                           /\ UNCHANGED up
                   /\ UNCHANGED error
    /\ UNCHANGED <<env, registered, routes>>

\* Line 141: the array is reversed in place and each element registered.
RegisterChain(h) ==
    /\ state[h] = "walked"
    /\ middlewares' = [middlewares EXCEPT ![h] = RegisterOrder(@)]
    /\ registered' = [registered EXCEPT ![h] = RegisterOrder(middlewares[h])]
    /\ state' = [state EXCEPT ![h] = "middleware-resolved"]
    /\ UNCHANGED <<env, up, named, searched, routes, error>>

\* Lines 142-149 and 179-180: the handler module is imported and, if its
\* export passes the tag test, the plugin that wraps the methods is registered.
LoadRoute(h) ==
    /\ state[h] = "middleware-resolved"
    /\ IF routeExport[h] = "Throws"
       THEN /\ state' = [state EXCEPT ![h] = "aborted"]
            /\ error' = [error EXCEPT ![h] = "import failed at line 142"]
       ELSE /\ state' = [state EXCEPT ![h] =
                           IF Recognised(routeExport[h]) THEN "scope-wrapped" ELSE "skipped"]
            /\ UNCHANGED error
    /\ UNCHANGED <<env, walk, registered, routes>>

\* Lines 149-176: the methods are wrapped and handle(_instance) is called.
Invoke(h) ==
    /\ state[h] = "scope-wrapped"
    /\ invoked' = [invoked EXCEPT ![h] = @ + 1]
    /\ state' = [state EXCEPT ![h] = "invoked"]
    /\ UNCHANGED <<env, walk, registered, calls, schema, forwarded, error>>

\* Lines 152-174: the handler body calls a wrapped method. args[1] is the
\* options object, or absent, in which case options is a fresh {}.
Call(h) ==
    /\ state[h] = "invoked"
    /\ calls[h] < Len(body[h])
    /\ calls' = [calls EXCEPT ![h] = @ + 1]
    /\ LET c == body[h][calls[h] + 1]
           options == Augment(c.inline, schemaFile[h])
       IN  IF ~fsDefined
           THEN \* line 162: fs.existsSync with fs unbound, outside the try
                /\ state' = [state EXCEPT ![h] = "aborted"]
                /\ error' = [error EXCEPT ![h] = "ReferenceError at line 162"]
                /\ UNCHANGED <<schema, forwarded>>
           ELSE /\ schema' =
                     [schema EXCEPT ![h] =
                        IF options.has
                        THEN Put(@, SchemaKey(c.method, c.url), options.val)
                        ELSE @]
                /\ forwarded' =
                     [forwarded EXCEPT ![h] =
                        Append(@, [method |-> c.method, url |-> c.url,
                                   inline |-> c.inline, schema |-> options])]
                /\ UNCHANGED <<state, error>>
    /\ UNCHANGED <<env, walk, registered, invoked>>

\* Line 176: the promise of handle(_instance) resolves.
Finish(h) ==
    /\ state[h] = "invoked"
    /\ calls[h] = Len(body[h])
    /\ state' = [state EXCEPT ![h] = "registered"]
    /\ UNCHANGED <<env, walk, registered, routes, error>>

Next ==
    \E h \in Handlers :
        \/ Discover(h)
        \/ WalkStep(h)
        \/ RegisterChain(h)
        \/ LoadRoute(h)
        \/ Invoke(h)
        \/ Call(h)
        \/ Finish(h)

Spec == Init /\ [][Next]_vars

SpecSchema == InitSchema /\ [][Next]_vars

\* ------------------------------------------------------------ properties
Range(s) == { s[i] : i \in DOMAIN s }

\* The walk of h has left the loop through a break.
WalkEnded(h) ==
    \/ state[h] \in {"walked", "middleware-resolved", "scope-wrapped", "invoked",
                     "registered", "skipped"}
    \/ error[h] \in {"import failed at line 142", "ReferenceError at line 162"}

\* Line 141 has run for h.
ChainRegistered(h) == WalkEnded(h) /\ state[h] # "walked"

\* The directories whose middleware was pushed, in the order the walk met them.
AsyncFound(h) == SelectSeq(searched[h], LAMBDA d : mwFile[d] = "AsyncFunction")

\* C1: when the handler declares an inline schema and schema.json parses, the
\* schema forwarded to the real registration is the shallow merge in which the
\* handler's value wins on every key both have.
C1_HandlerWinsMerge ==
    \A h \in Handlers : \A i \in DOMAIN forwarded[h] :
        LET f == forwarded[h][i]
        IN  (f.inline.has /\ schemaFile[h].kind = "json")
                => f.schema = Some(Spread(schemaFile[h].val, f.inline.val))

\* C2: the middlewares are registered in exactly the reverse of the order in
\* which the walk collected them, farthest ancestor first, nearest last,
\* nothing dropped and nothing duplicated.
C2_ChainIsReversedWalk ==
    \A h \in Handlers :
        ChainRegistered(h) =>
            /\ registered[h] = Reverse(AsyncFound(h))
            /\ \A i, j \in DOMAIN registered[h] :
                   i < j => Len(registered[h][i]) < Len(registered[h][j])

C2_Witness ==
    \E h \in Handlers : state[h] = "registered" /\ Len(registered[h]) >= 2

\* C3: the first directory searched is the handler's own directory, a
\* middleware beside the handler file is part of its chain, and the directory
\* whose basename is compared with handlers is the directory searched.
C3_WalkStartsBesideHandler ==
    \A h \in Handlers :
        /\ searched[h] # <<>> => searched[h][1] = hdir[h]
        /\ \A i \in DOMAIN searched[h] : named[h][i] = searched[h][i]
        /\ (ChainRegistered(h) /\ mwFile[hdir[h]] = "AsyncFunction")
               => hdir[h] \in Range(registered[h])

\* The depth of the nearest directory named handlers at or above the handler
\* file, 0 when there is none.
BoundaryDepth(h) ==
    LET at == { p \in DOMAIN hdir[h] : hdir[h][p] = "handlers" }
    IN  IF at = {} THEN 0 ELSE CHOOSE p \in at : \A q \in at : q <= p

\* C4: the chain holds no middleware from a directory strictly above the
\* first ancestor named handlers, and none from a directory above the first
\* level of the walk that has no middleware file.
C4_NothingAboveBoundary ==
    \A h \in Handlers : \A d \in Range(registered[h]) \cup Range(middlewares[h]) :
        /\ Len(d) >= BoundaryDepth(h)
        /\ \A i \in DOMAIN searched[h] :
               mwFile[searched[h][i]] = "None" => Len(d) > Len(searched[h][i])

\* C5: with a schema.json that is not JSON, a method registration does not
\* raise and is forwarded with exactly the handler's inline schema, if any.
C5_InvalidSchemaFileIsHarmless ==
    \A h \in Handlers :
        schemaFile[h].kind = "invalid" =>
            /\ Len(forwarded[h]) = calls[h]
            /\ \A i \in DOMAIN forwarded[h] :
                   forwarded[h][i].schema = forwarded[h][i].inline

\* What the code does in the case of C5 once fs resolves.
InvalidSchemaFileIsHarmlessIfFsResolves ==
    fsDefined => C5_InvalidSchemaFileIsHarmless

\* The entry under the key of call i of h, if any, was written by another
\* call, one that forwarded a schema.
NoEntryFrom(h, i) ==
    LET key == SchemaKey(forwarded[h][i].method, forwarded[h][i].url)
    IN  key \in DOMAIN schema[h] =>
            \E j \in DOMAIN forwarded[h] :
                /\ j # i
                /\ SchemaKey(forwarded[h][j].method, forwarded[h][j].url) = key
                /\ forwarded[h][j].schema = Some(schema[h][key])

\* C6 as stated: a call that declares no inline schema records no entry and
\* forwards no schema.
C6_NoInlineNoEntry ==
    \A h \in Handlers : \A i \in DOMAIN forwarded[h] :
        ~forwarded[h][i].inline.has =>
            ~forwarded[h][i].schema.has /\ NoEntryFrom(h, i)

\* C6 amended: a call that declares no inline schema, beside a schema.json
\* that is absent or does not parse, records no entry and forwards no schema.
C6_NoInlineNoFileNoEntry ==
    \A h \in Handlers : \A i \in DOMAIN forwarded[h] :
        (~forwarded[h][i].inline.has /\ schemaFile[h].kind # "json") =>
            ~forwarded[h][i].schema.has /\ NoEntryFrom(h, i)

C6_Witness ==
    \E h \in Handlers :
        /\ state[h] = "registered"
        /\ schemaFile[h].kind = "invalid"
        /\ \E i \in DOMAIN forwarded[h] : ~forwarded[h][i].inline.has

\* C7: the exported entry point is invoked, once, if and only if it is a
\* callable function, synchronous or asynchronous; any other export is skipped
\* without error and registers no route.
C7_InvokedIffCallable ==
    \A h \in Handlers :
        /\ state[h] \in {"invoked", "registered"}
               => Callable(routeExport[h]) /\ invoked[h] = 1
        /\ state[h] = "skipped"
               => /\ ~Callable(routeExport[h])
                  /\ invoked[h] = 0 /\ forwarded[h] = <<>> /\ error[h] = "none"

C9_HandlersAreIsolated ==
    \A h \in Handlers :
        /\ \A d \in Range(registered[h]) \cup Range(middlewares[h]) :
               d \in Prefixes(hdir[h])
        /\ (\A d \in Prefixes(hdir[h]) : mwFile[d] = "None")
               => registered[h] = <<>> /\ middlewares[h] = <<>>
        /\ \A key \in DOMAIN schema[h] :
               \E i \in DOMAIN forwarded[h] :
                   /\ SchemaKey(forwarded[h][i].method, forwarded[h][i].url) = key
                   /\ forwarded[h][i].schema = Some(schema[h][key])
                   /\ forwarded[h][i].method = body[h][i].method

C9_Witness ==
    \E a, b \in Handlers :
        /\ a < b
        /\ state[a] = "registered" /\ state[b] = "registered"
        /\ mwFile[hdir[a]] = "AsyncFunction"
        /\ registered[a] # <<>>
        /\ \A d \in Prefixes(hdir[b]) : mwFile[d] = "None"
        /\ registered[b] = <<>>
        /\ DOMAIN schema[a] # {} /\ DOMAIN schema[b] # {}
        /\ DOMAIN schema[a] \cap DOMAIN schema[b] = {}

\* C10: the walk of a handler never searches a directory level twice, so in
\* a finite tree it ends after at most one search per ancestor.
C10_WalkNeverRevisits ==
    \A h \in Handlers : \A i, j \in DOMAIN searched[h] :
        i < j => searched[h][i] # searched[h][j]

====
